---- MODULE Spec2Model ----
(***************************************************************************)
(* A model of the El Pais opinion scraper: the extractor (scraper.py), the *)
(* title translator (translator.py), the target runner and the parallel    *)
(* orchestrator (browserstack_runner.py).                                  *)
(*                                                                         *)
(* Python values are modelled as follows.  A str is a sequence of          *)
(* one-character strings; None, where a str is expected, is NoneText, a    *)
(* value distinct from every str.  A URL is an opaque TLA+ string, with    *)
(* NoneUrl for None and "" for the empty str.  A call that can raise is an *)
(* operator returning [raised |-> BOOLEAN, value |-> ...].                 *)
(***************************************************************************)
EXTENDS Integers, Sequences, FiniteSets, TLC

VARIABLES
    \* ---- scrape_single_article, run on one article page
    page,        \* the article page the driver shows (input)
    apc,         \* "ready" | "returned" | "raised"
    article,     \* the record scrape_single_article returned
    download,    \* the download_image call scrape_single_article made
    \* ---- get_article_links, run on one listing page
    listing,     \* the listing page the driver shows (input)
    count,       \* num_articles (input)
    lpc,         \* "ready" | "returned" | "raised"
    links,       \* the list get_article_links returned
    \* ---- run_single_browser, one worker per target
    rpc,             \* where each worker is in run_single_browser
    driver,          \* the local driver: FALSE is None
    status,          \* the local status
    reason,          \* the local reason
    articles,        \* the local articles
    titles_english,  \* the local titles_english
    future,          \* what the worker's future holds once it is done
    \* ---- the remote session and the calls made, per worker
    session,         \* "none" | "open" | "closed" | "close_failed"
    quitCalls,       \* number of driver.quit() calls
    notified,        \* the setSessionStatus scripts sent, in order, each with
                     \* whether execute_script succeeded
    scraped,         \* "no" | "returned" | "raised": how scrape_articles ended
    translateCalls,  \* number of translate_titles calls
    analyzeCalls,    \* number of find_repeated_words calls
    trFailed,        \* the titles whose translation call failed
    \* ---- configuration and run_all_browsers
    apiKeySet,       \* RAPIDAPI_KEY is not empty
    opc,             \* "idle" | "submitting" | "collecting" | "done"
    submitted,       \* number of targets submitted to the pool
    collected,       \* the workers whose future as_completed has yielded
    results,         \* the list run_all_browsers builds
    \* ---- create_driver, run on one descriptor
    descriptor,  \* browser_config (input)
    cpc,         \* "ready" | "built" | "raised"
    caps,        \* the "bstack:options" capability create_driver set
    \* ---- find_repeated_words, run on one list of headers
    headers,     \* the list of titles (input)
    shuffled,    \* the same titles in another order (input)
    wpc,         \* "ready" | "once" | "twice"
    repeated,    \* find_repeated_words(headers)
    again,       \* find_repeated_words(headers), called a second time
    permuted,    \* find_repeated_words(shuffled)
    \* ---- the image directory, written by the workers' download_image calls
    files,       \* path -> the worker whose write the file holds
    fidx,        \* per worker, the index of the article it scrapes next
    wrote,       \* per worker, the paths it wrote
    \* ---- translate_titles, run on one list of titles
    tr_titles,   \* titles (input)
    tr_kinds,    \* per title, how the service answers (input)
    tr_key,      \* RAPIDAPI_KEY is set (input)
    tpc,         \* "ready" | "returned"
    translated,  \* the list translate_titles returned
    posts        \* the number of requests.post calls it made

articleVars == <<page, apc, article, download>>
linkVars == <<listing, count, lpc, links>>
localVars == <<rpc, driver, status, reason, articles, titles_english, future>>
callVars == <<session, quitCalls, notified, scraped, translateCalls,
              analyzeCalls, trFailed>>
poolVars == <<apiKeySet, opc, submitted, collected, results>>
runVars == <<localVars, callVars, poolVars>>
capVars == <<descriptor, cpc, caps>>
wordVars == <<headers, shuffled, wpc, repeated, again, permuted>>
fileVars == <<files, fidx, wrote>>
trVars == <<tr_titles, tr_kinds, tr_key, tpc, translated, posts>>
auxVars == <<capVars, wordVars, fileVars, trVars>>
vars == <<articleVars, linkVars, runVars, auxVars>>

(***************************************************************************)
(* Bounds of the model.                                                    *)
(***************************************************************************)
MaxH1 == 2          \* h1 elements on an article page
MaxParagraphs == 2  \* p elements inside <article>
MaxElems == 2       \* elements a listing selector matches
MaxCount == 3       \* largest num_articles tried
NumTargets == 2     \* targets run in parallel (BROWSERS lists five)

(***************************************************************************)
(* Python values.                                                          *)
(***************************************************************************)
NoneText == <<"<None>">>
NoneUrl == "<None>"
NonePath == <<"<None>">>     \* None where a file path (a list of components) is expected
Whitespace == {" ", "\n"}

\* str.strip(): drop leading and trailing whitespace
RECURSIVE LStrip(_)
LStrip(s) ==
    IF s # <<>> /\ Head(s) \in Whitespace THEN LStrip(Tail(s)) ELSE s

RECURSIVE RStrip(_)
RStrip(s) ==
    IF s # <<>> /\ s[Len(s)] \in Whitespace
    THEN RStrip(SubSeq(s, 1, Len(s) - 1))
    ELSE s

Strip(s) == RStrip(LStrip(s))

\* sep.join(parts)
RECURSIVE Join(_, _)
Join(sep, parts) ==
    IF parts = <<>> THEN <<>>
    ELSE IF Len(parts) = 1 THEN parts[1]
    ELSE parts[1] \o sep \o Join(sep, Tail(parts))

\* index of the first TRUE of a sequence of booleans, 0 when there is none
FirstTrue(bs) ==
    IF \E i \in 1..Len(bs) : bs[i]
    THEN CHOOSE i \in 1..Len(bs) : bs[i] /\ \A j \in 1..(i - 1) : ~bs[j]
    ELSE 0

\* all sequences over S of length at most n
SeqsUpTo(S, n) == UNION {[1..k -> S] : k \in 0..n}

(***************************************************************************)
(* scraper.py: scrape_single_article and download_image.                   *)
(*                                                                         *)
(* An article page is                                                      *)
(*   navFails     driver.get(url) raises                                   *)
(*   h1s          the page's h1 elements in document order, each           *)
(*                [inHeader, cls, text, stale]: inside "article header",   *)
(*                carrying class a_t, its text, reading its text raises    *)
(*   contentFault a find_elements call of the body extraction raises       *)
(*   ps           the p elements inside <article> in document order, each  *)
(*                [inRegion, text, stale]: inRegion when one of the        *)
(*                content-region selectors matches it                      *)
(*   img          the first element matching the cover-image selectors:    *)
(*                [kind, src], kind "absent" | "stale" | "present"         *)
(*   net          what the network and the disk do during download_image   *)
(***************************************************************************)
SentinelTitle == <<"(could not extract title)">>
SentinelContent == <<"(could not extract content)">>
IMAGE_DIR == "images"

Ok(v) == [raised |-> FALSE, value |-> v]
Raised(e) == [raised |-> TRUE, value |-> e]

\* per h1 element, whether each selector of the title chain matches it
InHeader(h1s) == [i \in 1..Len(h1s) |-> h1s[i].inHeader]
HasClassAT(h1s) == [i \in 1..Len(h1s) |-> h1s[i].cls]
AnyH1(h1s) == [i \in 1..Len(h1s) |-> TRUE]

\* one selector strategy of the title chain: find the first matching
\* element, read and strip its text; raises when no element matches or the
\* read fails
TitleStrategy(h1s, matches) ==
    LET i == FirstTrue(matches)
    IN  IF i = 0 THEN Raised("NoSuchElement")
        ELSE IF h1s[i].stale THEN Raised("StaleElement")
        ELSE Ok(Strip(h1s[i].text))

\* a ladder that lacks the last strategy, the generic h1
ExtractTitleNoGenericFallback(p) ==
    LET s1 == TitleStrategy(p.h1s, InHeader(p.h1s))
        s2 == TitleStrategy(p.h1s, HasClassAT(p.h1s))
    IN  IF ~s1.raised THEN s1.value
        ELSE IF ~s2.raised THEN s2.value
        ELSE SentinelTitle

\* the try/except ladder of lines 127-141: the next strategy is tried only
\* when the previous one raised
ExtractTitle(p) ==
    LET s1 == TitleStrategy(p.h1s, InHeader(p.h1s))
        s2 == TitleStrategy(p.h1s, HasClassAT(p.h1s))
        s3 == TitleStrategy(p.h1s, AnyH1(p.h1s))
    IN  IF ~s1.raised THEN s1.value
        ELSE IF ~s2.raised THEN s2.value
        ELSE IF ~s3.raised THEN s3.value
        ELSE SentinelTitle

InRegion(e) == e.inRegion

RECURSIVE TextParts(_)
TextParts(ps) ==
    IF ps = <<>> THEN <<>>
    ELSE IF Strip(Head(ps).text) # <<>>
         THEN <<Strip(Head(ps).text)>> \o TextParts(Tail(ps))
         ELSE TextParts(Tail(ps))

\* a body extraction that always takes every paragraph inside the article
ExtractContentAnyParagraph(p) ==
    IF p.contentFault THEN SentinelContent
    ELSE IF \E i \in 1..Len(p.ps) : p.ps[i].stale THEN SentinelContent
    ELSE Join(<<"\n">>, TextParts(p.ps))

ExtractContent(p) ==
    IF p.contentFault THEN SentinelContent
    ELSE LET specific == SelectSeq(p.ps, InRegion)
             paragraphs == IF specific = <<>> THEN p.ps ELSE specific
         IN  IF \E i \in 1..Len(paragraphs) : paragraphs[i].stale THEN SentinelContent
             ELSE Join(<<"\n">>, TextParts(paragraphs))

\* '"png" in ctype', '"webp" in ctype' on the content types of the model
PngTypes == {"image/png"}
WebpTypes == {"image/webp"}

Extension(ctype) ==
    IF ctype \in PngTypes THEN "png"
    ELSE IF ctype \in WebpTypes THEN "webp"
    ELSE "jpg"

\* a download that does not call raise_for_status()
download_imageNoStatusCheck(img_url, idx, net) ==
    IF net.mkdirFails THEN Raised("OSError")
    ELSE IF net.get = "network_error" \/ net.writeFails THEN Ok(NonePath)
    ELSE Ok(<<IMAGE_DIR,
              "article_" \o ToString(idx + 1) \o "_cover."
                  \o Extension(net.ctype)>>)

\* download_image: ensure_image_dir() runs before the try block
download_image(img_url, idx, net) ==
    IF net.mkdirFails THEN Raised("OSError")
    ELSE IF net.get # "ok" \/ net.writeFails THEN Ok(NonePath)
    ELSE Ok(<<IMAGE_DIR,
              "article_" \o ToString(idx + 1) \o "_cover."
                  \o Extension(net.ctype)>>)

\* the download_image call of line 165, when scrape_single_article makes it
NotCalled == [called |-> FALSE, raised |-> FALSE, path |-> NonePath]

DownloadCall(p, idx) ==
    IF p.img.kind = "present" /\ p.img.src \notin {NoneUrl, ""}
    THEN LET d == download_image(p.img.src, idx, p.net)
         IN  [called |-> TRUE, raised |-> d.raised,
              path |-> IF d.raised THEN NonePath ELSE d.value]
    ELSE NotCalled

ExtractImage(p, idx) ==
    IF p.img.kind # "present" THEN NonePath
    ELSE IF p.img.src \in {NoneUrl, ""} THEN NonePath
    ELSE LET d == download_image(p.img.src, idx, p.net)
         IN  IF d.raised THEN NonePath ELSE d.value

scrape_single_article(p, url, idx) ==
    IF p.navFails THEN Raised("WebDriverException")
    ELSE Ok([url |-> url,
             title |-> ExtractTitle(p),
             content |-> ExtractContent(p),
             image_path |-> ExtractImage(p, idx)])

(***************************************************************************)
(* scraper.py: check_language and get_article_links.                       *)
(*                                                                         *)
(* A listing page is                                                       *)
(*   fault     "none", or the call that raises: "nav" (driver.get), "html" *)
(*             (the lookups of check_language), "articles" (find_elements  *)
(*             of the primary selector), "h2" (find_elements of the        *)
(*             secondary selector)                                         *)
(*   cookie    the consent button: "absent" (the wait times out),          *)
(*             "clicked", or "click_raises"                                *)
(*   lang      the lang attribute of <html>, NoneUrl when missing          *)
(*   articles  per <article> element in page order, what reading the href  *)
(*             of its "h2 a" gives: a URL, "", NoneUrl, or LookupRaises    *)
(*   h2links   per element of the secondary selector in page order, what   *)
(*             reading its href gives                                      *)
(***************************************************************************)
LookupRaises == "<raises>"

\* lang.startswith("es") on the lang values of the model
SpanishLangs == {"es", "es-ES"}

\* lines 33-36: the wait for the consent button and the click
CookieClick(l) ==
    IF l.cookie = "absent" THEN Raised("TimeoutException")
    ELSE IF l.cookie = "click_raises" THEN Raised("ElementClickInterceptedException")
    ELSE Ok(NoneUrl)

\* lines 32-39: whatever the wait or the click raises is swallowed
accept_cookies(l) ==
    IF CookieClick(l).raised THEN Ok(NoneUrl) ELSE Ok(NoneUrl)

\* a language check that stops the listing when the page is not in Spanish
check_languageFatal(l) ==
    IF l.fault = "html" THEN Raised("Message: no such element: \"html\"")
    ELSE LET lang == IF l.lang = NoneUrl THEN "" ELSE l.lang
         IN  IF lang \in SpanishLangs THEN Ok(TRUE)
             ELSE Raised("page is not in Spanish")

check_language(l) ==
    IF l.fault = "html" THEN Raised("Message: no such element: \"html\"")
    ELSE LET lang == IF l.lang = NoneUrl THEN "" ELSE l.lang
         IN  Ok(lang \in SpanishLangs)

Contains(seq, x) == \E i \in 1..Len(seq) : seq[i] = x

\* "if href": the lookup gave a non-empty str
IsHref(h) == h \notin {LookupRaises, NoneUrl, ""}

\* the loop of lines 78-87: a failing lookup skips the element
RECURSIVE PrimaryLoop(_, _, _)
PrimaryLoop(elems, acc, n) ==
    IF elems = <<>> THEN acc
    ELSE LET href == Head(elems)
         IN  IF href = LookupRaises THEN PrimaryLoop(Tail(elems), acc, n)
             ELSE IF IsHref(href) /\ ~Contains(acc, href)
                  THEN IF Len(acc) + 1 >= n THEN Append(acc, href)
                       ELSE PrimaryLoop(Tail(elems), Append(acc, href), n)
                  ELSE PrimaryLoop(Tail(elems), acc, n)

\* the loop of lines 95-100: a failing lookup leaves the loop
RECURSIVE FallbackLoop(_, _, _)
FallbackLoop(elems, acc, n) ==
    IF elems = <<>> THEN acc
    ELSE LET href == Head(elems)
         IN  IF href = LookupRaises THEN acc
             ELSE IF IsHref(href) /\ ~Contains(acc, href)
                  THEN IF Len(acc) + 1 >= n THEN Append(acc, href)
                       ELSE FallbackLoop(Tail(elems), Append(acc, href), n)
                  ELSE FallbackLoop(Tail(elems), acc, n)

PrimaryLinks(l, n) ==
    IF l.fault = "articles" THEN <<>> ELSE PrimaryLoop(l.articles, <<>>, n)

\* links[:n] for n >= 0
Prefix(seq, n) == SubSeq(seq, 1, IF n < Len(seq) THEN n ELSE Len(seq))

\* a fallback that appends every secondary link without the membership test
FallbackNoDedup(l, n, found) ==
    IF Len(found) < n /\ l.fault # "h2"
    THEN found \o SelectSeq(l.h2links, IsHref)
    ELSE found

\* lines 92-102
FallbackLinks(l, n, found) ==
    IF Len(found) < n
    THEN IF l.fault = "h2" THEN found ELSE FallbackLoop(l.h2links, found, n)
    ELSE found

get_article_links(l, n) ==
    IF l.fault = "nav" THEN Raised("WebDriverException")
    ELSE IF accept_cookies(l).raised THEN accept_cookies(l)
    ELSE IF check_language(l).raised THEN check_language(l)
    ELSE Ok(Prefix(FallbackLinks(l, n, PrimaryLinks(l, n)), n))

(***************************************************************************)
(* The inputs of the extractor.                                            *)
(***************************************************************************)
TitleTexts == {<<>>, <<" ">>, <<"a">>, <<" ", "a", "\n">>, <<"b", " ", "c">>}
H1Elems == [inHeader : BOOLEAN, cls : BOOLEAN, text : TitleTexts, stale : BOOLEAN]
ParagraphElems == [inRegion : BOOLEAN, text : TitleTexts, stale : BOOLEAN]
ImgElems == [kind : {"absent", "stale", "present"}, src : {NoneUrl, "", "img1"}]
NetOutcomes == [mkdirFails : BOOLEAN,
                get : {"ok", "network_error", "http_error"},
                ctype : {"image/png", "image/webp", "image/jpeg", ""},
                writeFails : BOOLEAN]
NetOk == [mkdirFails |-> FALSE, get |-> "ok", ctype |-> "image/jpeg", writeFails |-> FALSE]
NoImg == [kind |-> "absent", src |-> NoneUrl]

\* pages that differ in their headings
TitlePages ==
    [navFails : BOOLEAN, h1s : SeqsUpTo(H1Elems, MaxH1), contentFault : {FALSE},
     ps : {<<>>}, img : {NoImg}, net : {NetOk}]

\* pages that differ in their cover image and in what the download does
ImagePages ==
    [navFails : {FALSE},
     h1s : {<<>>, <<[inHeader |-> TRUE, cls |-> FALSE, text |-> <<"a">>,
                     stale |-> FALSE]>>},
     contentFault : {FALSE},
     ps : {<<>>, <<[inRegion |-> TRUE, text |-> <<"b", " ", "c">>, stale |-> FALSE]>>},
     img : ImgElems, net : NetOutcomes]

\* pages that differ in their paragraphs
ContentPages ==
    [navFails : {FALSE}, h1s : {<<>>}, contentFault : BOOLEAN,
     ps : SeqsUpTo(ParagraphElems, MaxParagraphs), img : {NoImg}, net : {NetOk}]

Urls == {"u1", "u2", "u3"}
\* the pages that differ in their links, and the pages that differ in the
\* consent button and in the call that raises
ListingPages ==
    [fault : {"none", "articles", "h2"},
     cookie : {"absent"},
     lang : {"es", "en", NoneUrl},
     articles : SeqsUpTo(Urls \cup {"", NoneUrl, LookupRaises}, MaxElems),
     h2links : SeqsUpTo(Urls \cup {LookupRaises}, MaxElems)]
    \cup
    [fault : {"none", "nav", "html", "articles", "h2"},
     cookie : {"absent", "clicked", "click_raises"},
     lang : {"es", "en", NoneUrl},
     articles : {<<>>, <<"u1">>},
     h2links : {<<>>, <<"u2">>}]

NoPage == [navFails |-> TRUE, h1s |-> <<>>, contentFault |-> FALSE,
           ps |-> <<>>, img |-> NoImg, net |-> NetOk]
NoListing == [fault |-> "nav", cookie |-> "absent", lang |-> NoneUrl, articles |-> <<>>, h2links |-> <<>>]
NoArticle == [url |-> "", title |-> NoneText, content |-> NoneText,
              image_path |-> NonePath]
NoDescriptor == [is_mobile |-> FALSE, opts |-> <<>>]

ArticleIdle ==
    page = NoPage /\ apc = "idle" /\ article = NoArticle /\ download = NotCalled
LinksIdle ==
    listing = NoListing /\ count = 0 /\ lpc = "idle" /\ links = <<>>
CapsIdle ==
    descriptor = NoDescriptor /\ cpc = "idle" /\ caps = <<>>
\* the empty dict
EmptyMap == [w \in {} |-> 0]
WordsIdle ==
    /\ headers = <<>> /\ shuffled = <<>> /\ wpc = "idle"
    /\ repeated = EmptyMap /\ again = EmptyMap /\ permuted = EmptyMap
\* an empty image directory
NoFiles == [f \in {} |-> 0]
FilesIdle ==
    /\ files = NoFiles
    /\ fidx = [w \in 1..NumTargets |-> 0]
    /\ wrote = [w \in 1..NumTargets |-> {}]
TranslateIdle ==
    /\ tr_titles = <<>> /\ tr_kinds = <<>> /\ tr_key = FALSE
    /\ tpc = "idle" /\ translated = <<>> /\ posts = 0
AuxIdle ==
    CapsIdle /\ WordsIdle /\ FilesIdle /\ TranslateIdle

(***************************************************************************)
(* scraper.py: scrape_articles.  A site is the listing page and, per URL,  *)
(* the article page behind it.                                             *)
(***************************************************************************)
RECURSIVE ScrapeEach(_, _, _, _)
ScrapeEach(site, urls, i, acc) ==
    IF urls = <<>> THEN Ok(acc)
    ELSE LET a == scrape_single_article(site.pages[Head(urls)], Head(urls), i)
         IN  IF a.raised THEN a
             ELSE ScrapeEach(site, Tail(urls), i + 1, Append(acc, a.value))

scrape_articles(site, n) ==
    LET l == get_article_links(site.listing, n)
    IN  IF l.raised THEN l ELSE ScrapeEach(site, l.value, 0, <<>>)

(***************************************************************************)
(* translator.py: translate_titles.  Per title the service answers with    *)
(* one of                                                                  *)
(*   "ok"            200, a JSON object whose "trans" is a str             *)
(*   "http_error"    raise_for_status() raises HTTPError                   *)
(*   "network_error" requests.post raises (connection, timeout)            *)
(*   "bad_json"      200, resp.json() raises                               *)
(*   "not_dict"      200, JSON that is no object: result.get raises        *)
(*   "no_trans"      200, a JSON object without "trans"                    *)
(*   "null_trans"    200, a JSON object whose "trans" is null              *)
(***************************************************************************)
RespKinds == {"ok", "http_error", "network_error", "bad_json", "not_dict",
              "no_trans", "null_trans"}

\* the English text the service answers for a title
Translation(title) == <<"E", "N", " ">> \o title

\* lines 42-66: one pass of the loop body, the value appended to translated
TranslateOne(title, kind) ==
    IF kind = "ok" THEN Translation(title)
    ELSE IF kind = "null_trans" THEN NoneText   \* result.get("trans", title)
    ELSE title

translate_titles(titles, keySet, kinds) ==
    IF ~keySet THEN titles
    ELSE [i \in 1..Len(titles) |-> TranslateOne(titles[i], kinds[i])]

(***************************************************************************)
(* analyzer.py: " ".join(headers) raises TypeError at the first element    *)
(* that is not a str.                                                      *)
(***************************************************************************)
NotStr(hs) == [i \in 1..Len(hs) |-> hs[i] = NoneText]

JoinRaises(hs) == FirstTrue(NotStr(hs)) # 0

JoinErrorText(hs) ==
    "sequence item " \o ToString(FirstTrue(NotStr(hs)) - 1)
        \o ": expected str instance, NoneType found"

(***************************************************************************)
(* browserstack_runner.py: run_single_browser and run_all_browsers.        *)
(***************************************************************************)
Targets == 1..NumTargets

BrowserNames == <<"Chrome on Windows 11", "Safari on macOS Ventura",
                  "Firefox on Windows 10", "Samsung Galaxy S23 (Chrome)",
                  "iPhone 15 (Safari)">>
Name(w) == BrowserNames[w]

ArticleCount == 5    \* scrape_articles(driver, count=5)

CreateErrorText == "Message: session not created"
QuitErrorText == "Message: invalid session id"
NoArticlesReason == "Could not scrape any articles"
ScrapedReason(n) == "Scraped " \o ToString(n) \o " articles successfully"

\* reason.replace('"', '\\"') on the reasons of the model
EscapeQuotes(r) ==
    IF r = "Message: no such element: \"html\""
    THEN "Message: no such element: \\\"html\\\""
    ELSE r

\* a script that always reports the initial status
ScriptArgsInitialStatus(st, rs) ==
    [status |-> "failed", reason |-> EscapeQuotes(rs)]

\* the arguments of the setSessionStatus script, lines 172-176
ScriptArgs(st, rs) == [status |-> st, reason |-> EscapeQuotes(rs)]

\* status and reason held in one place for all workers
AssignShared(f, w, v) == [x \in DOMAIN f |-> v]

\* an assignment to a local of worker w's call
Assign(f, w, v) == [f EXCEPT ![w] = v]

\* a test that is always true
HasArticlesAlways(as) == TRUE

\* "if articles:", line 152
HasArticles(as) == as # <<>>

\* a finally block whose quit() is skipped when the notification fails
PcAfterNotifySkipsQuit(ok) == IF ok THEN "quit" ELSE "return"

\* lines 171-179: the notification failure is swallowed, quit() follows
PcAfterNotify(ok) == "quit"

\* a handler that swallows the exception without recording a result
OnWorkerErrorDropped(rs, name, text) == rs

\* a handler that records the error without the target's name
OnWorkerErrorUnnamed(rs, name, text) ==
    Append(rs, [browser |-> "", status |-> "error", reason |-> text])

\* lines 211-216
OnWorkerError(rs, name, text) ==
    Append(rs, [browser |-> name, status |-> "error", reason |-> text])

\* lines 209-210
OnWorkerResult(rs, result) == Append(rs, result)

NoResult == [browser |-> "", status |-> "", reason |-> ""]
Pending == [state |-> "pending", result |-> NoResult, exc |-> ""]

\* the sites the targets are run against
PageA == [navFails |-> FALSE,
          h1s |-> <<[inHeader |-> TRUE, cls |-> FALSE, text |-> <<" ", "a", "\n">>,
                     stale |-> FALSE]>>,
          contentFault |-> FALSE, ps |-> <<>>, img |-> NoImg, net |-> NetOk]
RunListings ==
    {[fault |-> f, cookie |-> "absent", lang |-> "es", articles |-> a, h2links |-> h] :
        f \in {"none", "html"}, a \in {<<>>, <<"u1">>}, h \in {<<>>, <<"u1">>}}
RunSites == [listing : RunListings, pages : [{"u1"} -> {PageA}]]

RunIdle ==
    /\ rpc = [w \in Targets |-> "unsubmitted"]
    /\ driver = [w \in Targets |-> FALSE]
    /\ status = [w \in Targets |-> ""]
    /\ reason = [w \in Targets |-> ""]
    /\ articles = [w \in Targets |-> <<>>]
    /\ titles_english = [w \in Targets |-> <<>>]
    /\ future = [w \in Targets |-> Pending]
    /\ session = [w \in Targets |-> "none"]
    /\ quitCalls = [w \in Targets |-> 0]
    /\ notified = [w \in Targets |-> <<>>]
    /\ scraped = [w \in Targets |-> "no"]
    /\ translateCalls = [w \in Targets |-> 0]
    /\ analyzeCalls = [w \in Targets |-> 0]
    /\ trFailed = [w \in Targets |-> {}]
    /\ submitted = 0
    /\ collected = {}
    /\ results = <<>>

Init ==
    /\ RunIdle
    /\ apiKeySet \in BOOLEAN
    /\ opc = "submitting"
    /\ ArticleIdle /\ LinksIdle /\ AuxIdle

\* pool.submit(run_single_browser, b), in the order of BROWSERS; the worker
\* starts with lines 137-144
Submit ==
    /\ opc = "submitting"
    /\ LET w == submitted + 1
       IN  /\ rpc' = [rpc EXCEPT ![w] = "create"]
           /\ status' = Assign(status, w, "failed")
           /\ reason' = Assign(reason, w, "")
    /\ submitted' = submitted + 1
    /\ opc' = IF submitted' = NumTargets THEN "collecting" ELSE opc
    /\ UNCHANGED <<driver, articles, titles_english, future, callVars,
                   apiKeySet, collected, results, articleVars, linkVars, auxVars>>

\* line 147
Create(w) ==
    /\ rpc[w] = "create"
    /\ \E ok \in BOOLEAN :
          IF ok
          THEN /\ driver' = [driver EXCEPT ![w] = TRUE]
               /\ session' = [session EXCEPT ![w] = "open"]
               /\ rpc' = [rpc EXCEPT ![w] = "scrape"]
               /\ reason' = reason
          ELSE /\ reason' = Assign(reason, w, CreateErrorText)
               /\ rpc' = [rpc EXCEPT ![w] = "finally"]
               /\ UNCHANGED <<driver, session>>
    /\ UNCHANGED <<status, articles, titles_english, future, quitCalls, notified,
                   scraped, translateCalls, analyzeCalls, trFailed, poolVars,
                   articleVars, linkVars, auxVars>>

\* lines 150-152 and 161-162
Scrape(w) ==
    /\ rpc[w] = "scrape"
    /\ \E site \in RunSites :
          LET r == scrape_articles(site, ArticleCount)
          IN  IF r.raised
              THEN /\ reason' = Assign(reason, w, r.value)
                   /\ scraped' = [scraped EXCEPT ![w] = "raised"]
                   /\ rpc' = [rpc EXCEPT ![w] = "finally"]
                   /\ articles' = articles
              ELSE /\ articles' = [articles EXCEPT ![w] = r.value]
                   /\ scraped' = [scraped EXCEPT ![w] = "returned"]
                   /\ IF HasArticles(r.value)
                      THEN /\ rpc' = [rpc EXCEPT ![w] = "translate"]
                           /\ reason' = reason
                      ELSE /\ reason' = Assign(reason, w, NoArticlesReason)
                           /\ rpc' = [rpc EXCEPT ![w] = "finally"]
    /\ UNCHANGED <<driver, status, titles_english, future, session, quitCalls,
                   notified, translateCalls, analyzeCalls, trFailed, poolVars,
                   articleVars, linkVars, auxVars>>

\* lines 154-155
Translate(w) ==
    /\ rpc[w] = "translate"
    /\ LET titles_spanish == [i \in 1..Len(articles[w]) |-> articles[w][i].title]
       IN  \E kinds \in [1..Len(titles_spanish) -> RespKinds] :
              /\ titles_english' = [titles_english EXCEPT ![w] =
                     translate_titles(titles_spanish, apiKeySet, kinds)]
              /\ trFailed' = [trFailed EXCEPT ![w] =
                     IF apiKeySet
                     THEN {i \in 1..Len(titles_spanish) : kinds[i] # "ok"}
                     ELSE {}]
    /\ translateCalls' = [translateCalls EXCEPT ![w] = @ + 1]
    /\ rpc' = [rpc EXCEPT ![w] = "analyze"]
    /\ UNCHANGED <<driver, status, reason, articles, future, session, quitCalls,
                   notified, scraped, analyzeCalls, poolVars, articleVars, linkVars, auxVars>>

\* lines 156-160, and 164-166 when the analysis raises
Analyze(w) ==
    /\ rpc[w] = "analyze"
    /\ analyzeCalls' = [analyzeCalls EXCEPT ![w] = @ + 1]
    /\ IF JoinRaises(titles_english[w])
       THEN /\ reason' = Assign(reason, w, JoinErrorText(titles_english[w]))
            /\ status' = status
       ELSE /\ status' = Assign(status, w, "passed")
            /\ reason' = Assign(reason, w, ScrapedReason(Len(articles[w])))
    /\ rpc' = [rpc EXCEPT ![w] = "finally"]
    /\ UNCHANGED <<driver, articles, titles_english, future, session, quitCalls,
                   notified, scraped, translateCalls, trFailed, poolVars,
                   articleVars, linkVars, auxVars>>

\* lines 168-178: with a driver, the status script is sent and its failure
\* swallowed; without one the finally block does nothing
Finally(w) ==
    /\ rpc[w] = "finally"
    /\ IF driver[w]
       THEN \E ok \in BOOLEAN :
               /\ notified' = [notified EXCEPT ![w] =
                      Append(@, [script |-> ScriptArgs(status[w], reason[w]),
                                 ok |-> ok])]
               /\ rpc' = [rpc EXCEPT ![w] = PcAfterNotify(ok)]
       ELSE /\ rpc' = [rpc EXCEPT ![w] = "return"]
            /\ notified' = notified
    /\ UNCHANGED <<driver, status, reason, articles, titles_english, future,
                   session, quitCalls, scraped, translateCalls, analyzeCalls,
                   trFailed, poolVars, articleVars, linkVars, auxVars>>

\* line 179: an exception of quit() leaves run_single_browser
Quit(w) ==
    /\ rpc[w] = "quit"
    /\ quitCalls' = [quitCalls EXCEPT ![w] = @ + 1]
    /\ \E ok \in BOOLEAN :
          IF ok
          THEN /\ session' = [session EXCEPT ![w] = "closed"]
               /\ rpc' = [rpc EXCEPT ![w] = "return"]
               /\ future' = future
          ELSE /\ session' = [session EXCEPT ![w] = "close_failed"]
               /\ rpc' = [rpc EXCEPT ![w] = "raised"]
               /\ future' = [future EXCEPT ![w] =
                     [state |-> "exception", result |-> NoResult,
                      exc |-> QuitErrorText]]
    /\ UNCHANGED <<driver, status, reason, articles, titles_english, notified,
                   scraped, translateCalls, analyzeCalls, trFailed, poolVars,
                   articleVars, linkVars, auxVars>>

\* a result whose status is failed whenever the notification failed
RunResultMasked(w) ==
    [browser |-> Name(w),
     status |-> IF notified[w] # <<>> /\ ~notified[w][1].ok
                THEN "failed" ELSE status[w],
     reason |-> reason[w]]

\* the dict of lines 181-184
RunResult(w) ==
    [browser |-> Name(w), status |-> status[w], reason |-> reason[w]]

\* lines 181-184
Return(w) ==
    /\ rpc[w] = "return"
    /\ future' = [future EXCEPT ![w] =
          [state |-> "result", result |-> RunResult(w), exc |-> ""]]
    /\ rpc' = [rpc EXCEPT ![w] = "returned"]
    /\ UNCHANGED <<driver, status, reason, articles, titles_english, callVars,
                   poolVars, articleVars, linkVars, auxVars>>

\* lines 206-216: as_completed yields a finished future
Collect(w) ==
    /\ opc = "collecting"
    /\ w \notin collected
    /\ future[w].state # "pending"
    /\ results' = IF future[w].state = "result"
                  THEN OnWorkerResult(results, future[w].result)
                  ELSE OnWorkerError(results, Name(w), future[w].exc)
    /\ collected' = collected \cup {w}
    /\ UNCHANGED <<localVars, callVars, apiKeySet, opc, submitted,
                   articleVars, linkVars, auxVars>>

\* lines 218-231
Finish ==
    /\ opc = "collecting"
    /\ collected = Targets
    /\ opc' = "done"
    /\ UNCHANGED <<localVars, callVars, apiKeySet, submitted, collected, results,
                   articleVars, linkVars, auxVars>>

Worker(w) ==
    \/ Create(w) \/ Scrape(w) \/ Translate(w) \/ Analyze(w)
    \/ Finally(w) \/ Quit(w) \/ Return(w)

Next ==
    \/ Submit
    \/ \E w \in Targets : Worker(w)
    \/ \E w \in Targets : Collect(w)
    \/ Finish

Spec == Init /\ [][Next]_vars

\* every call of a worker returns or fails, and the pool gives every
\* submitted call a thread (max_workers = len(BROWSERS)): a step that can be
\* taken is eventually taken
SpecLive == Spec /\ WF_vars(Next)


(***************************************************************************)
(* SpecArticle: scrape_single_article on every article page.               *)
(***************************************************************************)
ArticleUrl == "u1"

InitArticle ==
    /\ page \in TitlePages \cup ImagePages \cup ContentPages
    /\ apc = "ready"
    /\ article = NoArticle
    /\ download = NotCalled
    /\ LinksIdle /\ AuxIdle
    /\ RunIdle /\ apiKeySet = TRUE /\ opc = "idle"

ScrapeSingleArticle ==
    /\ apc = "ready"
    /\ LET r == scrape_single_article(page, ArticleUrl, 0)
       IN  IF r.raised
           THEN apc' = "raised" /\ article' = article /\ download' = download
           ELSE /\ apc' = "returned"
                /\ article' = r.value
                /\ download' = DownloadCall(page, 0)
    /\ UNCHANGED <<page, linkVars, runVars, auxVars>>

NextArticle == ScrapeSingleArticle

SpecArticle == InitArticle /\ [][NextArticle]_vars

(***************************************************************************)
(* SpecLinks: get_article_links on every listing page.                     *)
(***************************************************************************)
InitLinks ==
    /\ listing \in ListingPages
    /\ count \in 0..MaxCount
    /\ lpc = "ready"
    /\ links = <<>>
    /\ ArticleIdle /\ AuxIdle
    /\ RunIdle /\ apiKeySet = TRUE /\ opc = "idle"

GetArticleLinks ==
    /\ lpc = "ready"
    /\ LET r == get_article_links(listing, count)
       IN  IF r.raised
           THEN lpc' = "raised" /\ links' = links
           ELSE lpc' = "returned" /\ links' = r.value
    /\ UNCHANGED <<listing, count, articleVars, runVars, auxVars>>

NextLinks == GetArticleLinks

SpecLinks == InitLinks /\ [][NextLinks]_vars

(***************************************************************************)
(* create_driver: the "bstack:options" capability built from a browser     *)
(* config.  A dict is a function from its keys to its values.              *)
(***************************************************************************)
BS_USER == "user"
BS_KEY == "key"

\* the keys a "bstack:options" mapping of BROWSERS can carry
OptKeys ==
    {"os", "osVersion", "browserName", "browserVersion", "deviceName",
     "sessionName", "buildName"}

BrowserNameValues == {"Chrome", "Safari", "Firefox"}

\* the mapping with keys ks, browserName b where present
OptMapping(ks, b) ==
    [k \in ks |-> IF k = "browserName" THEN b ELSE "v_" \o k]

Descriptors ==
    {[is_mobile |-> m, opts |-> OptMapping(ks, b)] :
        m \in BOOLEAN, ks \in SUBSET OptKeys, b \in BrowserNameValues}

\* dict.get(k, default)
Get(d, k, default) == IF k \in DOMAIN d THEN d[k] ELSE default

OptionsClass(browser_name) ==
    IF browser_name = "Safari" THEN "SafariOptions"
    ELSE IF browser_name = "Firefox" THEN "FirefoxOptions"
    ELSE "ChromeOptions"

BaseCaps(opts) ==
    [userName |-> BS_USER, accessKey |-> BS_KEY,
     sessionName |-> Get(opts, "sessionName", ""),
     buildName |-> Get(opts, "buildName", "")]

\* a factory that copies every option of the descriptor into the payload
create_driverCopiesOpts(browser_config) ==
    LET opts == browser_config.opts
    IN  IF browser_config.is_mobile /\ ~({"deviceName", "osVersion"} \subseteq DOMAIN opts)
        THEN Raised("KeyError")
        ELSE Ok([options |-> OptionsClass(Get(opts, "browserName", "Chrome")),
                 bstack |-> opts @@ BaseCaps(opts)])

\* create_driver up to options.set_capability: opts["deviceName"] and
\* opts["osVersion"] raise KeyError when the key is missing
create_driver(browser_config) ==
    LET opts == browser_config.opts
        options == OptionsClass(Get(opts, "browserName", "Chrome"))
        base == BaseCaps(opts)
    IN  IF browser_config.is_mobile
        THEN IF "deviceName" \notin DOMAIN opts \/ "osVersion" \notin DOMAIN opts
             THEN Raised("KeyError")
             ELSE Ok([options |-> options,
                      bstack |-> ("deviceName" :> opts["deviceName"])
                                 @@ ("osVersion" :> opts["osVersion"])
                                 @@ base])
        ELSE Ok([options |-> options,
                 bstack |-> ("os" :> Get(opts, "os", ""))
                            @@ ("osVersion" :> Get(opts, "osVersion", ""))
                            @@ ("browserVersion" :> Get(opts, "browserVersion", "latest"))
                            @@ base])

(***************************************************************************)
(* SpecCaps: create_driver on every descriptor.                            *)
(***************************************************************************)
InitCaps ==
    /\ descriptor \in Descriptors
    /\ cpc = "ready"
    /\ caps = <<>>
    /\ ArticleIdle /\ LinksIdle /\ WordsIdle /\ FilesIdle /\ TranslateIdle
    /\ RunIdle /\ apiKeySet = TRUE /\ opc = "idle"

CreateDriver ==
    /\ cpc = "ready"
    /\ LET r == create_driver(descriptor)
       IN  IF r.raised
           THEN cpc' = "raised" /\ caps' = caps
           ELSE cpc' = "built" /\ caps' = r.value
    /\ UNCHANGED <<descriptor, articleVars, linkVars, runVars, wordVars, fileVars, trVars>>

NextCaps == CreateDriver

SpecCaps == InitCaps /\ [][NextCaps]_vars

(***************************************************************************)
(* analyzer.py: find_repeated_words.  A str is a sequence of characters,   *)
(* a dict a function from its keys.                                        *)
(***************************************************************************)
MaxTitles == 3  \* titles in one list of headers

UpperLetters ==
    {"A", "B", "C", "D", "E", "F", "G", "H", "I", "J", "K", "L", "M", "N",
     "O", "P", "Q", "R", "S", "T", "U", "V", "W", "X", "Y", "Z"}
LowerLetters ==
    {"a", "b", "c", "d", "e", "f", "g", "h", "i", "j", "k", "l", "m", "n",
     "o", "p", "q", "r", "s", "t", "u", "v", "w", "x", "y", "z"}

\* str.lower(), one character
LowerChar(c) ==
    CASE c = "A" -> "a"
      [] c = "B" -> "b"
      [] c = "C" -> "c"
      [] c = "D" -> "d"
      [] c = "E" -> "e"
      [] c = "F" -> "f"
      [] c = "G" -> "g"
      [] c = "H" -> "h"
      [] c = "I" -> "i"
      [] c = "J" -> "j"
      [] c = "K" -> "k"
      [] c = "L" -> "l"
      [] c = "M" -> "m"
      [] c = "N" -> "n"
      [] c = "O" -> "o"
      [] c = "P" -> "p"
      [] c = "Q" -> "q"
      [] c = "R" -> "r"
      [] c = "S" -> "s"
      [] c = "T" -> "t"
      [] c = "U" -> "u"
      [] c = "V" -> "v"
      [] c = "W" -> "w"
      [] c = "X" -> "x"
      [] c = "Y" -> "y"
      [] c = "Z" -> "z"
      [] OTHER -> c

Lower(s) == [i \in 1..Len(s) |-> LowerChar(s[i])]

\* re.sub(r"[^a-zA-Z\s]", "", s)
KeepLettersAndSpace(c) == c \in UpperLetters \cup LowerLetters \cup Whitespace
RemovePunctuation(s) == SelectSeq(s, KeepLettersAndSpace)

\* str.split(): the maximal runs of non-whitespace characters
RECURSIVE SplitLoop(_, _, _)
SplitLoop(s, word, acc) ==
    IF s = <<>> THEN IF word = <<>> THEN acc ELSE Append(acc, word)
    ELSE IF Head(s) \in Whitespace
         THEN SplitLoop(Tail(s), <<>>, IF word = <<>> THEN acc ELSE Append(acc, word))
         ELSE SplitLoop(Tail(s), Append(word, Head(s)), acc)

Split(s) == SplitLoop(s, <<>>, <<>>)

STOP_WORDS ==
    {<<"a">>, <<"a", "b", "o", "u", "t">>, <<"a", "b", "o", "v", "e">>,
     <<"a", "f", "t", "e", "r">>, <<"a", "l", "l">>, <<"a", "n">>,
     <<"a", "n", "d">>, <<"a", "n", "y">>, <<"a", "r", "e">>, <<"a", "s">>,
     <<"a", "t">>, <<"b", "e">>, <<"b", "e", "e", "n">>,
     <<"b", "e", "f", "o", "r", "e">>, <<"b", "e", "t", "w", "e", "e", "n">>,
     <<"b", "o", "t", "h">>, <<"b", "u", "t">>, <<"b", "y">>,
     <<"c", "a", "n">>, <<"c", "o", "u", "l", "d">>, <<"d", "i", "d">>,
     <<"d", "o">>, <<"d", "o", "e", "s">>, <<"e", "a", "c", "h">>,
     <<"f", "e", "w">>, <<"f", "o", "r">>, <<"f", "r", "o", "m">>,
     <<"h", "a", "d">>, <<"h", "a", "s">>, <<"h", "a", "v", "e">>,
     <<"h", "e">>, <<"h", "e", "r">>, <<"h", "i", "m">>, <<"h", "i", "s">>,
     <<"h", "o", "w">>, <<"i">>, <<"i", "f">>, <<"i", "n">>,
     <<"i", "n", "t", "o">>, <<"i", "s">>, <<"i", "t">>, <<"i", "t", "s">>,
     <<"j", "u", "s", "t">>, <<"m", "a", "y">>, <<"m", "e">>,
     <<"m", "i", "g", "h", "t">>, <<"m", "o", "r", "e">>,
     <<"m", "o", "s", "t">>, <<"m", "y">>, <<"n", "o">>, <<"n", "o", "r">>,
     <<"n", "o", "t">>, <<"o", "f">>, <<"o", "n">>, <<"o", "r">>,
     <<"o", "t", "h", "e", "r">>, <<"o", "u", "r">>, <<"o", "u", "t">>,
     <<"o", "v", "e", "r">>, <<"s", "h", "a", "l", "l">>, <<"s", "h", "e">>,
     <<"s", "h", "o", "u", "l", "d">>, <<"s", "o">>, <<"s", "o", "m", "e">>,
     <<"s", "u", "c", "h">>, <<"t", "h", "a", "n">>, <<"t", "h", "a", "t">>,
     <<"t", "h", "e">>, <<"t", "h", "e", "i", "r">>, <<"t", "h", "e", "m">>,
     <<"t", "h", "e", "s", "e">>, <<"t", "h", "e", "y">>,
     <<"t", "h", "i", "s">>, <<"t", "h", "o", "s", "e">>, <<"t", "o">>,
     <<"t", "o", "o">>, <<"u", "n", "d", "e", "r">>, <<"u", "p">>,
     <<"u", "s">>, <<"v", "e", "r", "y">>, <<"w", "a", "s">>, <<"w", "e">>,
     <<"w", "e", "r", "e">>, <<"w", "h", "a", "t">>, <<"w", "h", "e", "n">>,
     <<"w", "h", "e", "r", "e">>, <<"w", "h", "i", "c", "h">>,
     <<"w", "h", "o">>, <<"w", "h", "o", "m">>, <<"w", "h", "y">>,
     <<"w", "i", "l", "l">>, <<"w", "i", "t", "h">>,
     <<"w", "o", "u", "l", "d">>, <<"y", "o", "u">>, <<"y", "o", "u", "r">>}

\* all_text of a list in which only the first two headers are joined
all_textFirstTwo(hs) ==
    Lower(Join(<<" ">>, IF Len(hs) > 2 THEN SubSeq(hs, 1, 2) ELSE hs))

\* all_text without the call of lower()
all_textNotLowered(hs) == Join(<<" ">>, hs)

all_text(hs) == Lower(Join(<<" ">>, hs))

Meaningful(w) == w \notin STOP_WORDS /\ Len(w) > 1

\* Counter(ws)
Counter(ws) ==
    [w \in {ws[i] : i \in 1..Len(ws)} |->
        Cardinality({i \in 1..Len(ws) : ws[i] = w})]

\* a filter that keeps the words counted at least twice
KeepAtLeastTwice(cnt) == cnt >= 2

Keep(cnt) == cnt > 2

find_repeated_words(hs) ==
    LET clean_text == RemovePunctuation(all_text(hs))
        words == Split(clean_text)
        meaningful_words == SelectSeq(words, Meaningful)
        counts == Counter(meaningful_words)
    IN  [w \in {v \in DOMAIN counts : Keep(counts[v])} |-> counts[w]]

\* the titles the lists of headers are made of
SampleTitles ==
    {<<"T", "h", "e", " ", "c", "a", "t", " ", "r", "u", "n", "s">>,
     <<"C", "a", "t", ",", " ", "c", "a", "t", "!">>,
     <<"d", "o", "g", " ", "c", "a", "t">>,
     <<"x", " ", "x", " ", "x">>,
     <<"é", "l", " ", "c", "a", "t", " ", " ", "c", "a", "t">>,
     <<"d", "o", "g", "\n", "d", "o", "g", " ", "d", "o", "g">>}

\* the orderings of hs
Orderings(hs) ==
    {[i \in 1..Len(hs) |-> hs[p[i]]] :
        p \in {q \in [1..Len(hs) -> 1..Len(hs)] :
                  \A i, j \in 1..Len(hs) : q[i] = q[j] => i = j}}

(***************************************************************************)
(* SpecAnalyzer: find_repeated_words on every list of headers, called      *)
(* twice on the list and once on a reordering of it.                       *)
(***************************************************************************)
InitAnalyzer ==
    /\ headers \in SeqsUpTo(SampleTitles, MaxTitles)
    /\ shuffled \in Orderings(headers)
    /\ wpc = "ready"
    /\ repeated = EmptyMap /\ again = EmptyMap /\ permuted = EmptyMap
    /\ ArticleIdle /\ LinksIdle /\ CapsIdle /\ FilesIdle /\ TranslateIdle
    /\ RunIdle /\ apiKeySet = TRUE /\ opc = "idle"

FindRepeatedWords ==
    /\ wpc = "ready"
    /\ wpc' = "once"
    /\ repeated' = find_repeated_words(headers)
    /\ UNCHANGED <<headers, shuffled, again, permuted>>
    /\ UNCHANGED <<articleVars, linkVars, runVars, capVars, fileVars, trVars>>

FindRepeatedWordsAgain ==
    /\ wpc = "once"
    /\ wpc' = "twice"
    /\ again' = find_repeated_words(headers)
    /\ permuted' = find_repeated_words(shuffled)
    /\ UNCHANGED <<headers, shuffled, repeated>>
    /\ UNCHANGED <<articleVars, linkVars, runVars, capVars, fileVars, trVars>>

NextAnalyzer == FindRepeatedWords \/ FindRepeatedWordsAgain

SpecAnalyzer == InitAnalyzer /\ [][NextAnalyzer]_vars

(***************************************************************************)
(* SpecFiles: the download_image calls of the concurrent workers.  Every   *)
(* worker scrapes the articles of the listing in order, idx = 0, 1, ...,   *)
(* and IMAGE_DIR is one directory of the process.                          *)
(***************************************************************************)
MaxImages == 2  \* articles with a cover image, per worker

\* what the download of one cover image meets
FileNets ==
    {NetOk,
     [mkdirFails |-> FALSE, get |-> "ok", ctype |-> "image/png", writeFails |-> FALSE],
     [mkdirFails |-> FALSE, get |-> "http_error", ctype |-> "", writeFails |-> FALSE]}

InitFiles ==
    /\ FilesIdle
    /\ ArticleIdle /\ LinksIdle /\ CapsIdle /\ WordsIdle /\ TranslateIdle
    /\ RunIdle /\ apiKeySet = TRUE /\ opc = "idle"

\* lines 175-197 in worker w: open(filepath, "wb") replaces what the file held
DownloadImage(w) ==
    /\ fidx[w] < MaxImages
    /\ \E net \in FileNets :
          LET d == download_image("img1", fidx[w], net)
          IN  IF ~d.raised /\ d.value # NonePath
              THEN /\ files' = (d.value :> w) @@ files
                   /\ wrote' = [wrote EXCEPT ![w] = @ \cup {d.value}]
              ELSE UNCHANGED <<files, wrote>>
    /\ fidx' = [fidx EXCEPT ![w] = @ + 1]
    /\ UNCHANGED <<articleVars, linkVars, runVars, capVars, wordVars, trVars>>

NextFiles == \E w \in Targets : DownloadImage(w)

SpecFiles == InitFiles /\ [][NextFiles]_vars

(***************************************************************************)
(* SpecTranslate: translate_titles on every list of titles, with every     *)
(* pattern of answers of the service, with and without an API key.         *)
(***************************************************************************)
MaxBatch == 3  \* titles in one call of translate_titles

BatchTitles == {<<"a">>, <<"b">>}

\* requests.post is called once per title, and not at all without a key
PostCalls(titles, keySet) == IF ~keySet THEN 0 ELSE Len(titles)

InitTranslate ==
    /\ tr_titles \in SeqsUpTo(BatchTitles, MaxBatch)
    /\ tr_kinds \in [1..Len(tr_titles) -> RespKinds]
    /\ tr_key \in BOOLEAN
    /\ tpc = "ready" /\ translated = <<>> /\ posts = 0
    /\ ArticleIdle /\ LinksIdle /\ CapsIdle /\ WordsIdle /\ FilesIdle
    /\ RunIdle /\ apiKeySet = TRUE /\ opc = "idle"

TranslateTitles ==
    /\ tpc = "ready"
    /\ tpc' = "returned"
    /\ translated' = translate_titles(tr_titles, tr_key, tr_kinds)
    /\ posts' = PostCalls(tr_titles, tr_key)
    /\ UNCHANGED <<tr_titles, tr_kinds, tr_key>>
    /\ UNCHANGED <<articleVars, linkVars, runVars, capVars, wordVars, fileVars>>

NextTranslate == TranslateTitles

SpecTranslate == InitTranslate /\ [][NextTranslate]_vars

(***************************************************************************)
(* Claims about scrape_single_article (SpecArticle).                       *)
(***************************************************************************)
\* no h1 of the page has text that can be read and is non-empty once stripped
NoTitleText(p) ==
    \A i \in 1..Len(p.h1s) : p.h1s[i].stale \/ Strip(p.h1s[i].text) = <<>>

\* C8: every record scrape_single_article returns has a title that is not
\* None, and when no title text can be extracted from the page the title is
\* the placeholder "(could not extract title)".
C8_TitlePlaceholder ==
    apc = "returned" =>
        /\ article.title # NoneText
        /\ NoTitleText(page) => article.title = SentinelTitle

\* the page has h1 elements, none inside "article header" and none of class
\* a_t, and the first one can be read
OnlyGenericHeading(p) ==
    /\ Len(p.h1s) > 0
    /\ \A i \in 1..Len(p.h1s) : ~p.h1s[i].inHeader /\ ~p.h1s[i].cls
    /\ ~p.h1s[1].stale

\* C9: for a page that exposes only a generic top-level heading the title
\* is that heading's (stripped) text, not the sentinel.
C9_GenericHeadingTitle ==
    (apc = "returned" /\ OnlyGenericHeading(page)) =>
        /\ article.title = Strip(page.h1s[1].text)
        /\ article.title # SentinelTitle

C9_Witness ==
    /\ apc = "returned"
    /\ OnlyGenericHeading(page)
    /\ Len(page.h1s) = 2
    /\ article.title = <<"b", " ", "c">>

(***************************************************************************)
(* Claims about get_article_links (SpecLinks).                             *)
(***************************************************************************)
\* position of the first occurrence of x in seq, Len(seq) + 1 when absent
FirstPos(seq, x) ==
    IF Contains(seq, x)
    THEN CHOOSE i \in 1..Len(seq) : seq[i] = x /\ \A j \in 1..(i - 1) : seq[j] # x
    ELSE Len(seq) + 1

\* the hrefs the primary selector can contribute
PrimaryHrefs(l) ==
    IF l.fault = "articles" THEN {}
    ELSE {l.articles[i] : i \in 1..Len(l.articles)} \ {"", NoneUrl, LookupRaises}

SecondaryHrefs(l) ==
    IF l.fault = "h2" THEN {}
    ELSE {l.h2links[i] : i \in 1..Len(l.h2links)} \ {"", NoneUrl, LookupRaises}

\* C10: get_article_links returns at most count links without duplicates;
\* the links of the primary selector come first, in page order; links of the
\* secondary selector follow only when the primary ones are fewer than count,
\* in page order, and none of them repeats a link already present.
C10_LinksOrderedNoDuplicates ==
    lpc = "returned" =>
        LET P == PrimaryHrefs(listing)
            k == IF Cardinality(P) < count THEN Cardinality(P) ELSE count
        IN  /\ Len(links) <= count
            /\ \A i, j \in 1..Len(links) : i # j => links[i] # links[j]
            /\ Len(links) >= k
            /\ \A i \in 1..k : links[i] \in P
            /\ \A i, j \in 1..k :
                   i < j => FirstPos(listing.articles, links[i])
                                < FirstPos(listing.articles, links[j])
            /\ \A x \in P : (\A i \in 1..k : links[i] # x) =>
                   \A i \in 1..k : FirstPos(listing.articles, links[i])
                                       < FirstPos(listing.articles, x)
            /\ Cardinality(P) >= count => Len(links) = k
            /\ \A i \in (k + 1)..Len(links) :
                   links[i] \in SecondaryHrefs(listing) \ P
            /\ \A i, j \in (k + 1)..Len(links) :
                   i < j => FirstPos(listing.h2links, links[i])
                                < FirstPos(listing.h2links, links[j])

C10_Witness ==
    /\ lpc = "returned"
    /\ count = 3
    /\ listing.fault = "none"
    /\ listing.articles = <<"u2", "u2">>
    /\ listing.h2links = <<"u2", "u1">>
    /\ links = <<"u2", "u1">>

(***************************************************************************)
(* Claims about run_single_browser and run_all_browsers (Spec).            *)
(***************************************************************************)
\* the worker has left the try block
PastTry(w) == rpc[w] \in {"finally", "quit", "return", "returned", "raised"}

\* run_single_browser has ended, by return or by exception
Done(w) == rpc[w] \in {"returned", "raised"}

ResultsOf(w) == {i \in 1..Len(results) : results[i].browser = Name(w)}

\* C1: run_all_browsers returns exactly one result per target, whatever the
\* targets' outcomes: as many results as targets, none dropped, none twice.
C1_OneResultPerTarget ==
    /\ Len(results) = Cardinality(collected)
    /\ \A w \in Targets :
          Cardinality(ResultsOf(w)) = IF w \in collected THEN 1 ELSE 0
    /\ opc = "done" => Len(results) = NumTargets

C1_Witness ==
    /\ opc = "done"
    /\ \E i, j \in 1..Len(results) :
          /\ results[i].status = "error"
          /\ results[j].status = "failed"
          /\ results[j].reason = NoArticlesReason

\* C2: once a session has been created, driver.quit() is called exactly once
\* on every exit path, never twice, and the session is not left open.
C2_SessionClosedExactlyOnce ==
    \A w \in Targets :
        /\ quitCalls[w] <= 1
        /\ session[w] = "none" => quitCalls[w] = 0
        /\ (session[w] # "none" /\ rpc[w] \in {"return", "returned", "raised"}) =>
               /\ quitCalls[w] = 1
               /\ session[w] # "open"

C2_Witness ==
    \E w \in Targets :
        /\ rpc[w] = "returned"
        /\ scraped[w] = "raised"
        /\ notified[w] # <<>> /\ ~notified[w][1].ok
        /\ quitCalls[w] = 1
        /\ session[w] = "closed"

\* C3 as claimed: whatever the outcome of the run, exactly one status
\* notification is attempted, with the status of the returned result, before
\* the session is closed.
C3_NotifiesRegardlessOfOutcome ==
    \A w \in Targets :
        /\ Len(notified[w]) <= 1
        /\ quitCalls[w] >= 1 => Len(notified[w]) = 1
        /\ Done(w) => Len(notified[w]) = 1
        /\ rpc[w] = "returned" =>
               notified[w][1].script.status = future[w].result.status

\* C3, amended: whenever a session was created, exactly one status
\* notification is attempted, before the session is closed, and its status
\* is the status of the result the run returns; without a session none is
\* attempted.
C3_NotifiesOnceBeforeClose ==
    \A w \in Targets :
        /\ Len(notified[w]) <= 1
        /\ session[w] = "none" => notified[w] = <<>>
        /\ quitCalls[w] >= 1 => Len(notified[w]) = 1
        /\ (session[w] # "none" /\ Done(w)) => Len(notified[w]) = 1
        /\ (session[w] # "none" /\ rpc[w] = "returned") =>
               notified[w][1].script.status = future[w].result.status

C3_Witness ==
    \E w \in Targets :
        /\ rpc[w] = "returned"
        /\ future[w].result.status = "passed"
        /\ Len(notified[w]) = 1
        /\ notified[w][1].script.status = "passed"
        /\ session[w] = "closed"

\* C4: an exception that escapes run_single_browser becomes a result with
\* status "error", the target's name and the exception text; the results of
\* the other targets are collected all the same.
C4_EscapedExceptionBecomesError ==
    /\ \A w \in collected :
          /\ future[w].state = "exception" =>
                \E i \in 1..Len(results) :
                    results[i] = [browser |-> Name(w), status |-> "error",
                                  reason |-> future[w].exc]
          /\ future[w].state = "result" =>
                \E i \in 1..Len(results) : results[i] = future[w].result
    /\ opc = "done" => collected = Targets

C4_Witness ==
    /\ opc = "done"
    /\ \E w, v \in Targets :
          /\ rpc[w] = "raised"
          /\ results[1] = [browser |-> Name(w), status |-> "error",
                           reason |-> QuitErrorText]
          /\ rpc[v] = "returned"
          /\ results[2].browser = Name(v)
          /\ results[2].status = "passed"

\* session creation failed, or the scrape returned no article
TargetFatal(w) ==
    /\ PastTry(w)
    /\ \/ session[w] = "none"
       \/ scraped[w] = "returned" /\ articles[w] = <<>>

\* a step of worker w's run leaves the locals and the future of every other
\* worker as they are
OthersUntouched ==
    \A w, v \in Targets :
        (w # v /\ rpc'[w] # rpc[w]) =>
            /\ rpc'[v] = rpc[v] /\ driver'[v] = driver[v]
            /\ status'[v] = status[v] /\ reason'[v] = reason[v]
            /\ articles'[v] = articles[v]
            /\ titles_english'[v] = titles_english[v]
            /\ future'[v] = future[v]

\* C5: a target-fatal fault ends that target's run with status "failed" and
\* a non-empty reason, and under every interleaving no step of one target's
\* run changes the status, the reason or the result of another target.
C5_FaultIsolated ==
    /\ [](\A w \in Targets :
             TargetFatal(w) =>
                 /\ status[w] = "failed" /\ reason[w] # ""
                 /\ rpc[w] = "returned" =>
                        future[w].result = [browser |-> Name(w),
                                            status |-> "failed",
                                            reason |-> reason[w]])
    /\ [][OthersUntouched]_vars

C5_Witness ==
    \E w, v \in Targets :
        /\ rpc[w] = "returned" /\ session[w] = "none"
        /\ future[w].result.status = "failed"
        /\ future[w].result.reason = CreateErrorText
        /\ rpc[v] = "returned"
        /\ future[v].result.status = "passed"

\* C6: translate_titles and find_repeated_words are called if and only if
\* at least one article was extracted; with zero articles the result is
\* "failed" with the reason "Could not scrape any articles" and neither is
\* called.
C6_TranslateIffArticles ==
    \A w \in Targets :
        /\ translateCalls[w] <= 1 /\ analyzeCalls[w] <= 1
        /\ ~PastTry(w) => analyzeCalls[w] = 0
        /\ PastTry(w) =>
               /\ translateCalls[w] = 1 <=> articles[w] # <<>>
               /\ analyzeCalls[w] = 1 <=> articles[w] # <<>>
               /\ (scraped[w] = "returned" /\ articles[w] = <<>>) =>
                      /\ status[w] = "failed"
                      /\ reason[w] = NoArticlesReason
                      /\ translateCalls[w] = 0 /\ analyzeCalls[w] = 0

C6_Witness ==
    \E w, v \in Targets :
        /\ rpc[w] = "returned" /\ scraped[w] = "returned" /\ articles[w] = <<>>
        /\ translateCalls[w] = 0 /\ analyzeCalls[w] = 0
        /\ future[w].result.status = "failed"
        /\ rpc[v] = "returned" /\ Len(articles[v]) = 1
        /\ translateCalls[v] = 1 /\ analyzeCalls[v] = 1

\* C7: a failed translation call keeps the title's original text, the other
\* titles are still translated, and the run's status stays "passed".
C7_TranslationFailureKeepsRunPassed ==
    \A w \in Targets :
        translateCalls[w] = 1 =>
            /\ Len(titles_english[w]) = Len(articles[w])
            /\ \A i \in trFailed[w] : titles_english[w][i] = articles[w][i].title
            /\ PastTry(w) => status[w] = "passed"

\* C11: get_article_links never raises, whatever element lookup fails
\* during listing, those of the cookie step and of the language check
\* included; it returns a list of links, possibly empty.
C11_LinksNeverRaise ==
    (lpc # "ready" /\ listing.fault # "nav") => lpc = "returned"

(***************************************************************************)
(* Claims about the cover image (SpecArticle).                             *)
(***************************************************************************)
\* the directory cannot be made, the request fails or answers non-2xx, or
\* the file cannot be written
DownloadFails(net) == net.mkdirFails \/ net.get # "ok" \/ net.writeFails

\* the record of the same page without a cover image
WithoutImage(p) == scrape_single_article([p EXCEPT !.img = NoImg], ArticleUrl, 0).value

\* C12: when the cover-image download fails, scrape_single_article still
\* returns the record, with image_path None and with the url, title and
\* content it extracted.
C12_FailedDownloadKeepsRecord ==
    (apc # "ready" /\ ~page.navFails
        /\ page.img.kind = "present" /\ page.img.src \notin {NoneUrl, ""}
        /\ DownloadFails(page.net)) =>
        /\ apc = "returned"
        /\ download.called
        /\ article.image_path = NonePath
        /\ article.url = ArticleUrl
        /\ article.title = WithoutImage(page).title
        /\ article.content = WithoutImage(page).content

C12_Witness ==
    /\ apc = "returned"
    /\ download.called
    /\ page.net.get = "http_error" /\ ~page.net.mkdirFails
    /\ article.image_path = NonePath
    /\ article.title = <<"a">>
    /\ article.content = <<"b", " ", "c">>

\* C13: on every failure (network error, non-2xx status, failure to make the
\* image directory or to write the file) download_image returns None and
\* lets no exception reach its caller.
C13_DownloadNeverRaises ==
    (download.called /\ DownloadFails(page.net)) =>
        /\ ~download.raised
        /\ download.path = NonePath

(***************************************************************************)
(* Claims about create_driver (SpecCaps).                                  *)
(***************************************************************************)
\* C14: the payload create_driver builds for a mobile descriptor never
\* contains browserVersion or os, and the payload for a desktop descriptor
\* never contains deviceName, whatever keys the descriptor carries.
C14_PayloadFieldsByKind ==
    cpc = "built" =>
        /\ descriptor.is_mobile =>
               {"browserVersion", "os"} \cap DOMAIN caps.bstack = {}
        /\ ~descriptor.is_mobile => "deviceName" \notin DOMAIN caps.bstack

\* a mobile descriptor that carries the desktop-only keys, and a payload
\* built from it
C14_Witness ==
    /\ cpc = "built"
    /\ descriptor.is_mobile
    /\ {"browserVersion", "os"} \subseteq DOMAIN descriptor.opts
    /\ DOMAIN caps.bstack =
           {"userName", "accessKey", "sessionName", "buildName",
            "deviceName", "osVersion"}

(***************************************************************************)
(* Claims about find_repeated_words (SpecAnalyzer).                        *)
(***************************************************************************)
\* the normalised tokens of one title
TokensOf(title) == Split(RemovePunctuation(Lower(title)))

Occurrences(w, ws) == Cardinality({i \in 1..Len(ws) : ws[i] = w})

\* the number of tokens equal to w across the titles
RECURSIVE TrueCount(_, _)
TrueCount(w, hs) ==
    IF hs = <<>> THEN 0
    ELSE Occurrences(w, TokensOf(Head(hs))) + TrueCount(w, Tail(hs))

\* the tokens of the titles, the keys of the output, and a stop-word and a
\* word that occur in no title
CandidateWords ==
    UNION {{TokensOf(headers[i])[j] : j \in 1..Len(TokensOf(headers[i]))} :
              i \in 1..Len(headers)}
        \cup DOMAIN repeated \cup {<<"t", "h", "e">>, <<"c", "a", "t">>}

\* C15: a word is a key of the output of find_repeated_words if and only if
\* it is not a stop-word, is longer than one character and occurs more than
\* twice among the normalised tokens; a word occurring exactly twice is
\* not a key.
C15_KeyIffRepeated ==
    wpc # "ready" =>
        \A w \in CandidateWords :
            /\ w \in DOMAIN repeated <=>
                   (w \notin STOP_WORDS /\ Len(w) > 1 /\ TrueCount(w, headers) > 2)
            /\ TrueCount(w, headers) = 2 => w \notin DOMAIN repeated

\* "x" three times, "cat" exactly twice, "dog" three times
C15_Witness ==
    /\ wpc = "once"
    /\ headers = <<<<"x", " ", "x", " ", "x">>,
                 <<"C", "a", "t", ",", " ", "c", "a", "t", "!">>,
                 <<"d", "o", "g", "\n", "d", "o", "g", " ", "d", "o", "g">>>>
    /\ TrueCount(<<"c", "a", "t">>, headers) = 2
    /\ TrueCount(<<"x">>, headers) = 3
    /\ DOMAIN repeated = {<<"d", "o", "g">>}

\* C16: the value find_repeated_words stores for a word is the number of
\* occurrences of the word across all the input titles.
C16_ValueIsOccurrenceCount ==
    wpc # "ready" =>
        \A w \in DOMAIN repeated : repeated[w] = TrueCount(w, headers)

\* "cat" once in the first and third titles and twice, once capitalised,
\* in the second
C16_Witness ==
    /\ wpc = "once"
    /\ headers = <<<<"T", "h", "e", " ", "c", "a", "t", " ", "r", "u", "n", "s">>,
                 <<"C", "a", "t", ",", " ", "c", "a", "t", "!">>,
                 <<"d", "o", "g", " ", "c", "a", "t">>>>
    /\ DOMAIN repeated = {<<"c", "a", "t">>}
    /\ repeated[<<"c", "a", "t">>] = 4

\* C17: find_repeated_words returns the same map for two lists that are
\* orderings of the same titles, and the same map when called again on
\* the same list.
C17_OrderInsensitive ==
    wpc = "twice" => again = repeated /\ permuted = repeated

C17_Witness ==
    /\ wpc = "twice"
    /\ headers = <<<<"C", "a", "t", ",", " ", "c", "a", "t", "!">>,
                 <<"d", "o", "g", " ", "c", "a", "t">>,
                 <<"x", " ", "x", " ", "x">>>>
    /\ shuffled = <<<<"x", " ", "x", " ", "x">>,
                  <<"d", "o", "g", " ", "c", "a", "t">>,
                  <<"C", "a", "t", ",", " ", "c", "a", "t", "!">>>>
    /\ DOMAIN permuted = {<<"c", "a", "t">>}
    /\ permuted[<<"c", "a", "t">>] = 3

(***************************************************************************)
(* Claims about termination and the order of a run's states (Spec and      *)
(* SpecLive).                                                              *)
(***************************************************************************)
Terminated ==
    /\ opc = "done"
    /\ \A w \in Targets :
          /\ Cardinality(ResultsOf(w)) = 1
          /\ \A i \in ResultsOf(w) :
                results[i].status \in {"passed", "failed", "error"}

\* C18: when every external call returns or fails, run_all_browsers ends
\* with a result for every target whose status is passed, failed or error,
\* whatever faults the targets met.
C18_BatchTerminates == <>Terminated

\* one target ended by an exception, another passed, and the batch is done
C18_Witness ==
    /\ Terminated
    /\ \E w, v \in Targets :
          /\ rpc[w] = "raised"
          /\ \A i \in ResultsOf(w) : results[i].status = "error"
          /\ \A i \in ResultsOf(v) : results[i].status = "passed"

\* the state of worker w's run: REPORTING once the finally block is entered
\* with a session, CLOSED once quit() was called, ENDED when the run leaves
\* without a session
State(w) ==
    CASE rpc[w] = "unsubmitted" -> "IDLE"
      [] rpc[w] = "create" -> "CREATING"
      [] rpc[w] = "scrape" -> "SCRAPING"
      [] rpc[w] = "translate" -> "TRANSLATING"
      [] rpc[w] = "analyze" -> "ANALYZING"
      [] rpc[w] \in {"finally", "quit"} ->
             IF driver[w] THEN "REPORTING" ELSE "ENDED"
      [] OTHER -> IF quitCalls[w] > 0 THEN "CLOSED" ELSE "ENDED"

\* the edges of the claimed state machine
ClaimedEdges ==
    {<<"IDLE", "CREATING">>, <<"CREATING", "SCRAPING">>,
     <<"SCRAPING", "TRANSLATING">>, <<"TRANSLATING", "ANALYZING">>,
     <<"ANALYZING", "REPORTING">>, <<"REPORTING", "CLOSED">>,
     <<"CREATING", "REPORTING">>, <<"SCRAPING", "REPORTING">>,
     <<"TRANSLATING", "REPORTING">>}

\* the step of worker w in which an exception is raised inside the try block
RaisedInCreate(w) == rpc[w] = "create" /\ rpc'[w] = "finally"
RaisedInScrape(w) == rpc[w] = "scrape" /\ scraped'[w] = "raised"
RaisedInAnalyze(w) == rpc[w] = "analyze" /\ rpc'[w] = "finally" /\ status'[w] # "passed"

RaisedInRun(w) == RaisedInScrape(w) \/ RaisedInAnalyze(w)

ReportingFailed(w) == rpc[w] = "finally" /\ driver[w] /\ status[w] = "failed"

\* C19 as claimed: a run changes state only along CREATING, SCRAPING,
\* (TRANSLATING, ANALYZING), REPORTING, CLOSED, and an exception raised in
\* any of CREATING, SCRAPING, TRANSLATING, ANALYZING takes it directly to
\* REPORTING with status failed.
C19_ExceptionAlwaysReported ==
    [][\A w \in Targets :
          /\ State(w)' # State(w) => <<State(w), State(w)'>> \in ClaimedEdges
          /\ (RaisedInCreate(w) \/ RaisedInRun(w)) => ReportingFailed(w)'
      ]_vars

\* C19 amended: a run changes state only along CREATING, SCRAPING,
\* (TRANSLATING, ANALYZING), REPORTING, CLOSED; an exception raised in
\* SCRAPING, TRANSLATING or ANALYZING takes it directly to REPORTING with
\* status failed; an exception raised in CREATING ends the run with status
\* failed without REPORTING and without CLOSED.
C19_StateOrder ==
    [][\A w \in Targets :
          /\ State(w)' # State(w) =>
                <<State(w), State(w)'>> \in
                    (ClaimedEdges \ {<<"CREATING", "REPORTING">>})
                        \cup {<<"CREATING", "ENDED">>}
          /\ RaisedInRun(w) => ReportingFailed(w)'
          /\ RaisedInCreate(w) =>
                State(w)' = "ENDED" /\ status'[w] = "failed"
      ]_vars

\* one run closed after an exception in SCRAPING was reported, another
\* ended after an exception in CREATING
C19_Witness ==
    \E w, v \in Targets :
        /\ scraped[w] = "raised"
        /\ State(w) = "CLOSED"
        /\ Len(notified[w]) = 1 /\ notified[w][1].script.status = "failed"
        /\ rpc[v] = "returned" /\ State(v) = "ENDED"
        /\ reason[v] = CreateErrorText

(***************************************************************************)
(* Claims about a failing notification (Spec).                             *)
(***************************************************************************)
NotifyFailed(w) == notified[w] # <<>> /\ ~notified[w][1].ok

\* C20: a failure of the status notification is swallowed: the result
\* run_single_browser returns has the status and reason the run had when
\* the notification was sent, whether the notification succeeded or failed,
\* and after a failed notification the session is still closed.
C20_NotifyFailureSwallowed ==
    \A w \in Targets :
        /\ (notified[w] # <<>> /\ future[w].state = "result") =>
               notified[w][1].script =
                   ScriptArgs(future[w].result.status, future[w].result.reason)
        /\ (NotifyFailed(w) /\ rpc[w] # "quit") =>
               quitCalls[w] = 1 /\ session[w] # "open"

\* a run that passed, whose notification failed, returned passed and closed
C20_Witness ==
    \E w \in Targets :
        /\ NotifyFailed(w)
        /\ future[w].state = "result"
        /\ future[w].result.status = "passed"
        /\ session[w] = "closed"

(***************************************************************************)
(* Claims about the title chain (SpecArticle).                             *)
(***************************************************************************)
\* the strategy found an element, read it, and its stripped text is not empty
Yields(s) == ~s.raised /\ s.value # <<>>

\* C21: the title is the text of the first of the three strategies
\* (structured-header heading, class-based heading, any top-level heading)
\* that yields non-empty text: a strategy that finds an element whose text
\* is empty does not win, the next one is tried.
C21_FirstNonEmptyStrategyWins ==
    apc = "returned" =>
        LET s1 == TitleStrategy(page.h1s, InHeader(page.h1s))
            s2 == TitleStrategy(page.h1s, HasClassAT(page.h1s))
            s3 == TitleStrategy(page.h1s, AnyH1(page.h1s))
        IN  /\ Yields(s1) => article.title = s1.value
            /\ (~Yields(s1) /\ Yields(s2)) => article.title = s2.value
            /\ (~Yields(s1) /\ ~Yields(s2) /\ Yields(s3)) =>
                   article.title = s3.value

(***************************************************************************)
(* Claims about the workers' writes (SpecFiles).                           *)
(***************************************************************************)
\* C22: workers share no mutable state: under every interleaving, no file
\* written by one worker is written or overwritten by another worker.
C22_NoSharedWrites ==
    \A w, v \in Targets : w # v => wrote[w] \cap wrote[v] = {}

(***************************************************************************)
(* Claims about the body extraction (SpecArticle).                         *)
(***************************************************************************)
\* the positions of the paragraphs the extraction reads: those matched by
\* the content-region selectors, or every paragraph when there is none
UsedParagraphs(p) ==
    IF \E i \in 1..Len(p.ps) : p.ps[i].inRegion
    THEN {i \in 1..Len(p.ps) : p.ps[i].inRegion}
    ELSE 1..Len(p.ps)

\* the non-empty stripped texts of the paragraphs at positions used, from
\* position i on, joined by newlines
RECURSIVE JoinedTexts(_, _, _)
JoinedTexts(ps, used, i) ==
    IF i > Len(ps) THEN <<>>
    ELSE LET rest == JoinedTexts(ps, used, i + 1)
             t == Strip(ps[i].text)
         IN  IF i \notin used \/ t = <<>> THEN rest
             ELSE IF rest = <<>> THEN t
             ELSE t \o <<"\n">> \o rest

\* C23: the body is taken from the paragraphs matched by the content-region
\* selectors, from every paragraph of the article only when those match
\* nothing; content is their non-empty texts joined by newlines in document
\* order; when the extraction raises, content is the sentinel and the
\* record is still returned.
C23_ContentFromRegionOrFallback ==
    (apc # "ready" /\ ~page.navFails) =>
        /\ apc = "returned"
        /\ article.content =
               IF page.contentFault
                   \/ \E i \in UsedParagraphs(page) : page.ps[i].stale
               THEN SentinelContent
               ELSE JoinedTexts(page.ps, UsedParagraphs(page), 1)

\* two paragraphs outside the content regions, both read, stripped and joined
C23_Witness ==
    /\ apc = "returned"
    /\ Len(page.ps) = 2
    /\ \A i \in 1..2 : ~page.ps[i].inRegion
    /\ article.content = <<"a", "\n", "b", " ", "c">>

(***************************************************************************)
(* Claims about the language check (SpecLinks).                            *)
(***************************************************************************)
\* the same listing page with the expected language attribute
InSpanish(l) == [l EXCEPT !.lang = "es"]

\* C24: the language check is verification only: whether the root language
\* attribute matches the expected language, differs from it or is missing,
\* get_article_links goes on to the link extraction and returns the links
\* it returns for the same page in the expected language.
C24_LanguageCheckOnlyVerifies ==
    (lpc # "ready" /\ listing.fault \notin {"nav", "html"}) =>
        /\ lpc = "returned"
        /\ links = get_article_links(InSpanish(listing), count).value

\* a page without the language attribute, and both its links returned
C24_Witness ==
    /\ lpc = "returned"
    /\ listing.lang = NoneUrl
    /\ listing.fault = "none"
    /\ links = <<"u1", "u2">>

(***************************************************************************)
(* Claims about the status run_single_browser returns (Spec).              *)
(***************************************************************************)
\* the analysis of worker w's translated titles raised: a title is no str
AnalysisRaised(w) ==
    analyzeCalls[w] = 1
        /\ \E i \in 1..Len(titles_english[w]) : titles_english[w][i] = NoneText

\* C25: run_single_browser returns status passed if and only if the session
\* was created, at least one article was extracted, and translation and
\* analysis both finished without raising; an exception after a successful
\* scrape yields failed with the exception text as the reason.
C25_PassedIffPipelineCompleted ==
    \A w \in Targets :
        future[w].state = "result" =>
            /\ future[w].result.status = "passed" <=>
                   /\ driver[w]
                   /\ scraped[w] = "returned" /\ Len(articles[w]) >= 1
                   /\ translateCalls[w] = 1 /\ analyzeCalls[w] = 1
                   /\ ~AnalysisRaised(w)
            /\ AnalysisRaised(w) =>
                   /\ future[w].result.status = "failed"
                   /\ future[w].result.reason =
                          "sequence item 0: expected str instance, NoneType found"

\* one run returned passed after its analysis, another returned failed with
\* the text of the exception its analysis raised
C25_Witness ==
    \E w, v \in Targets :
        /\ future[w].state = "result" /\ future[w].result.status = "passed"
        /\ Len(articles[w]) = 1 /\ analyzeCalls[w] = 1
        /\ future[v].state = "result" /\ AnalysisRaised(v)
        /\ future[v].result.status = "failed"

(***************************************************************************)
(* Claims about translate_titles (SpecTranslate).                          *)
(***************************************************************************)
\* C26: for every list of titles and every pattern of per-title success or
\* failure, translate_titles returns a list of the same length in the same
\* order whose element i is the translation of title i or title i itself;
\* without an API key it returns the titles unchanged and makes no
\* translation call.
C26_SameLengthTranslationOrOriginal ==
    tpc = "returned" =>
        /\ Len(translated) = Len(tr_titles)
        /\ \A i \in 1..Len(translated) :
              translated[i] \in {Translation(tr_titles[i]), tr_titles[i]}
        /\ ~tr_key => translated = tr_titles /\ posts = 0

====
